---- MODULE Spec2Model ----
(***************************************************************************)
(* The A2A task protocol engine of agency/communication/a2a_server.py:     *)
(* the JSON-RPC dispatcher, the task map self.tasks, the tasks/send,       *)
(* tasks/sendSubscribe, tasks/get, tasks/cancel, tasks/list and agent/info *)
(* handlers, the chunker, the mock response producers and the SSE          *)
(* generator stream_response.                                              *)
(*                                                                         *)
(* Texts.  A response text (a Python str) is represented by the sequence   *)
(* of its maximal whitespace-free runs (its words, as strings) and of its  *)
(* single whitespace characters, in order: "a b\nc" is                     *)
(* <<"a", " ", "b", "\n", "c">>.  Every str has exactly one such           *)
(* representation, so equality of texts is equality of sequences; Cat is   *)
(* str concatenation (it fuses a trailing word with a leading word),       *)
(* TextLen is len(), Split is str.split() and JoinWords is " ".join().     *)
(* The text of an incoming message part is a sequence of characters, so    *)
(* that lower() and the substring tests of the producers are computed.     *)
(***************************************************************************)
EXTENDS Integers, Sequences, FiniteSets, TLC

(***************************************************************************)
(* Bounds of the model.                                                    *)
(***************************************************************************)
MaxStreams == 2      \* stream_response generators alive at the same time
MaxChunkText == 5    \* tokens of a text handed to the chunker on its own
MaxChunkSize == 4    \* largest chunk_size handed to the chunker on its own
MaxSkills == 2       \* most skills, and most example lists, of an agent

(***************************************************************************)
(* Python str operations on texts.                                         *)
(***************************************************************************)
Whitespace == {" ", "\n", "\t"}

IsSpace(tok) == tok \in Whitespace

Last(s) == s[Len(s)]

Front(s) == SubSeq(s, 1, Len(s) - 1)

\* s + t
Cat(s, t) ==
    IF s = <<>> THEN t
    ELSE IF t = <<>> THEN s
    ELSE IF ~IsSpace(Last(s)) /\ ~IsSpace(Head(t))
         THEN Front(s) \o <<Last(s) \o Head(t)>> \o Tail(t)
         ELSE s \o t

RECURSIVE TextLen(_)
\* len(s)
TextLen(s) == IF s = <<>> THEN 0 ELSE Len(Head(s)) + TextLen(Tail(s))

\* s.split(): the words of s, whitespace runs dropped
Split(s) == SelectSeq(s, LAMBDA tok : ~IsSpace(tok))

RECURSIVE JoinWords(_)
\* " ".join(words), words a list of whitespace-free non-empty strings
JoinWords(words) ==
    IF words = <<>> THEN <<>>
    ELSE IF Len(words) = 1 THEN <<Head(words)>>
    ELSE <<Head(words), " ">> \o JoinWords(Tail(words))

RECURSIVE Join(_, _)
\* sep.join(texts), texts a list of texts
Join(sep, texts) ==
    IF texts = <<>> THEN <<>>
    ELSE IF Len(texts) = 1 THEN Head(texts)
    ELSE Cat(Cat(Head(texts), sep), Join(sep, Tail(texts)))

RECURSIVE CatAll(_)
\* the f-string of the pieces
CatAll(pieces) ==
    IF pieces = <<>> THEN <<>> ELSE Cat(Head(pieces), CatAll(Tail(pieces)))

Digits == <<"0", "1", "2", "3", "4", "5", "6", "7", "8", "9">>

RECURSIVE Str(_)
\* str(n) of a natural number, as a text
Str(n) == IF n < 10 THEN <<Digits[n + 1]>>
          ELSE Cat(Str(n \div 10), <<Digits[(n % 10) + 1]>>)

(***************************************************************************)
(* A2AServer._chunk_text                                                   *)
(***************************************************************************)
RECURSIVE ChunkLoopDrop(_, _, _, _)
\* a loop that forgets the words left over after the last full chunk
ChunkLoopDrop(words, current_chunk, chunks, chunk_size) ==
    IF words = <<>>
    THEN chunks
    ELSE LET appended == Append(current_chunk, Head(words))
         IN  IF TextLen(JoinWords(appended)) >= chunk_size
             THEN ChunkLoopDrop(Tail(words), <<>>,
                                Append(chunks, JoinWords(appended)), chunk_size)
             ELSE ChunkLoopDrop(Tail(words), appended, chunks, chunk_size)

RECURSIVE ChunkLoop(_, _, _, _)
\* the for loop over words and the flush of the last partial chunk
ChunkLoop(words, current_chunk, chunks, chunk_size) ==
    IF words = <<>>
    THEN IF current_chunk # <<>>
         THEN Append(chunks, JoinWords(current_chunk))
         ELSE chunks
    ELSE LET appended == Append(current_chunk, Head(words))
         IN  IF TextLen(JoinWords(appended)) >= chunk_size
             THEN ChunkLoop(Tail(words), <<>>,
                            Append(chunks, JoinWords(appended)), chunk_size)
             ELSE ChunkLoop(Tail(words), appended, chunks, chunk_size)

\* a chunker that returns all the words as one chunk
_chunk_textWhole(text, chunk_size) ==
    IF Split(text) = <<>> THEN <<>> ELSE <<JoinWords(Split(text))>>

_chunk_text(text, chunk_size) == ChunkLoop(Split(text), <<>>, <<>>, chunk_size)

(***************************************************************************)
(* The string literals of the two response producers.                      *)
(***************************************************************************)
TxtIm ==
    << "I'm", " " >>

TxtAgentCreate ==
    << ".", " ", "I'd", " ", "be", " ", "happy", " ", "to", " ", "help", " ", "with", " ",
       "creating", " ", "a", " ", "new", " ", "agent.", " ", "Please", " ", "provide", " ",
       "details", " ", "like", " ", "the", " ", "name,", " ", "description,", " ", "and", " ",
       "skills", " ", "for", " ", "the", " ", "new", " ", "agent." >>

TxtAgentList1 ==
    << ".", " ", "I", " ", "can", " ", "list", " ", "all", " ", "available", " ", "agents.", " ",
       "Currently,", " ", "there", " ", "are", " " >>

TxtAgentList2 ==
    << " ", "agents", " ", "registered", " ", "in", " ", "the", " ", "system." >>

TxtAgentFile1 ==
    << ".", " ", "I", " ", "received", " ", "your", " ", "file" >>

TxtAgentFile2 ==
    << ".", " ", "I'll", " ", "process", " ", "it", " ", "according", " ", "to", " ", "my", " ",
       "capabilities:", " " >>

TxtAgentData ==
    << ".", " ", "I", " ", "received", " ", "your", " ", "structured", " ", "data.", " ", "I'll",
       " ", "analyze", " ", "it", " ", "based", " ", "on", " ", "my", " ", "expertise", " ", "in:",
       " " >>

TxtSpecialized ==
    << ",", " ", "specialized", " ", "in", " " >>

TxtAssist ==
    << " ", "How", " ", "can", " ", "I", " ", "assist", " ", "you", " ", "today?" >>

TxtAgencyCreate ==
    << "I", " ", "am", " ", "the", " ", "AI", " ", "Agency.", " ", "I", " ", "can", " ", "help",
       " ", "you", " ", "create", " ", "a", " ", "new", " ", "agent.", " ", "To", " ", "create",
       " ", "an", " ", "agent,", " ", "I", " ", "need", " ", "the", " ", "following", " ",
       "information:", "\n", "-", " ", "Name", " ", "for", " ", "the", " ", "agent", "\n", "-", " ",
       "Description", " ", "of", " ", "its", " ", "purpose", "\n", "-", " ", "List", " ", "of", " ",
       "skills", " ", "it", " ", "should", " ", "have", "\n", "-", " ", "(Optional)", " ",
       "Specific", " ", "model", " ", "to", " ", "use" >>

TxtAgencyList1 ==
    << "Here", " ", "are", " ", "the", " ", "available", " ", "agents:", "\n" >>

TxtAgencyList2 ==
    << "\n", "\n", "There", " ", "are", " " >>

TxtAgencyList3 ==
    << " ", "agents", " ", "in", " ", "total." >>

TxtAgencyNoAgents ==
    << "There", " ", "are", " ", "no", " ", "agents", " ", "currently", " ", "registered", " ",
       "in", " ", "the", " ", "system." >>

TxtAgencyFile1 ==
    << "I", " ", "received", " ", "your", " ", "file" >>

TxtAgencyFile2 ==
    << ".", " ", "How", " ", "would", " ", "you", " ", "like", " ", "me", " ", "to", " ", "process",
       " ", "it?", " ", "I", " ", "can", " ", "create", " ", "specialized", " ", "agents", " ",
       "for", " ", "handling", " ", "this", " ", "type", " ", "of", " ", "data." >>

TxtAgencyData ==
    << "I", " ", "received", " ", "your", " ", "structured", " ", "data.", " ", "I", " ", "can",
       " ", "create", " ", "specialized", " ", "agents", " ", "for", " ", "analyzing", " ", "this",
       " ", "kind", " ", "of", " ", "information", " ", "or", " ", "forward", " ", "it", " ", "to",
       " ", "an", " ", "existing", " ", "agent.", " ", "What", " ", "would", " ", "you", " ",
       "like", " ", "to", " ", "do?" >>

TxtAgencyDefault ==
    << "I", " ", "am", " ", "the", " ", "AI", " ", "Agency.", " ", "I", " ", "can", " ", "help",
       " ", "you", " ", "create", " ", "and", " ", "manage", " ", "AI", " ", "agents.", " ", "My",
       " ", "capabilities", " ", "include:", "\n", "-", " ", "Creating", " ", "specialized", " ",
       "agents", " ", "for", " ", "specific", " ", "tasks", "\n", "-", " ", "Managing", " ",
       "existing", " ", "agents", " ", "(listing,", " ", "updating,", " ", "deleting)", "\n", "-",
       " ", "Facilitating", " ", "communication", " ", "between", " ", "agents", "\n", "\n", "How",
       " ", "can", " ", "I", " ", "assist", " ", "you", " ", "today?" >>

TxtDefaultName == << "Agent" >>

TxtCommaSpace == << ",", " " >>

TxtSpace == << " " >>

TxtDot == << "." >>

TxtDotSpace == << ".", " " >>

TxtNewline == << "\n" >>

TxtDashSpace == << "-", " " >>

TxtColonSpace == << ":", " " >>

(***************************************************************************)
(* The registry collaborator (agency/agent_registry.py).  The A2A server   *)
(* only reads it.  An optional key of an agent dict is a sequence that is  *)
(* empty when the key is absent and holds the value otherwise.             *)
(***************************************************************************)
Agents ==
    << [id |-> "a1", name |-> << <<"Bot">> >>, description |-> << <<>> >>,
        skills |-> << << <<"demo">> >> >>],
       [id |-> "a2", name |-> << <<"Data", " ", "Helper">> >>,
        description |-> << <<"Answers", " ", "questions.">> >>,
        skills |-> << << <<"x">>, <<"y">> >> >>] >>

NoAgent == [id |-> "", name |-> <<>>, description |-> <<>>, skills |-> <<>>]

\* a lookup that falls back to the first agent for an id it does not know
get_agentFallback(agent_id) ==
    IF \E k \in 1..Len(Agents) : Agents[k].id = agent_id
    THEN Agents[CHOOSE k \in 1..Len(Agents) : Agents[k].id = agent_id]
    ELSE Agents[1]

\* AgentRegistry.get_agent: the agent dict, or None
get_agent(agent_id) ==
    IF \E k \in 1..Len(Agents) : Agents[k].id = agent_id
    THEN Agents[CHOOSE k \in 1..Len(Agents) : Agents[k].id = agent_id]
    ELSE NoAgent

\* AgentRegistry.list_agents without a filter
list_agents == Agents

\* dict.get(key, default) on an optional key
Get(opt, default) == IF opt = <<>> THEN default ELSE opt[1]

(***************************************************************************)
(* Incoming message parts.  The text of a part is a sequence of            *)
(* characters; lower() and the substring test are those of Python on the   *)
(* letters that occur.                                                     *)
(***************************************************************************)
UpperCase == <<"A", "C", "D", "F", "L">>

LowerCase == <<"a", "c", "d", "f", "l">>

LowerChar(c) ==
    IF \E k \in 1..Len(UpperCase) : UpperCase[k] = c
    THEN LowerCase[CHOOSE k \in 1..Len(UpperCase) : UpperCase[k] = c]
    ELSE c

\* s.lower()
Lower(s) == [k \in 1..Len(s) |-> LowerChar(s[k])]

\* kw in s
Contains(kw, s) ==
    \E k \in 1..(Len(s) - Len(kw) + 1) : SubSeq(s, k, k + Len(kw) - 1) = kw

KwCreate == <<"c", "r", "e", "a", "t", "e">>

KwAgent == <<"a", "g", "e", "n", "t">>

KwList == <<"l", "i", "s", "t">>

KwFile == <<"f", "i", "l", "e">>

KwData == <<"d", "a", "t", "a">>

RECURSIVE message_text(_)
\* the loop over message.get("parts", []): message_text += part.get("text", "")
message_text(parts) ==
    IF parts = <<>> THEN <<>>
    ELSE (IF Head(parts).type = "text" THEN Head(parts).text ELSE <<>>)
         \o message_text(Tail(parts))

RECURSIVE file_parts(_)
\* the same loop: file_parts.append(part.get("file", {}))
file_parts(parts) ==
    IF parts = <<>> THEN <<>>
    ELSE (IF Head(parts).type = "file" THEN <<Head(parts).file>> ELSE <<>>)
         \o file_parts(Tail(parts))

RECURSIVE data_parts(_)
\* the same loop: data_parts.append(part.get("data", {}))
data_parts(parts) ==
    IF parts = <<>> THEN <<>>
    ELSE (IF Head(parts).type = "data" THEN <<Head(parts).data>> ELSE <<>>)
         \o data_parts(Tail(parts))

\* ' ' + file_parts[0].get('file_name', '') if file_parts[0].get('file_name') else ''
FileNameSuffix(files) ==
    IF files[1].file_name # <<>> THEN Cat(TxtSpace, files[1].file_name) ELSE <<>>

\* file_parts[0].get('file_name') raises AttributeError when the file of the
\* first file part is not a dict; both producers come to it on the same
\* branch, after the create and the list branch
ProducerRaises(text, files) ==
    LET lower == Lower(text)
    IN  /\ ~(Contains(KwCreate, lower) /\ Contains(KwAgent, lower))
        /\ ~(Contains(KwList, lower) /\ Contains(KwAgent, lower))
        /\ Contains(KwFile, lower)
        /\ files # <<>>
        /\ files[1].json # "object"

(***************************************************************************)
(* A2AServer._generate_agent_response                                      *)
(***************************************************************************)
_generate_agent_response(agent, text, files, datas) ==
    LET agent_name == Get(agent.name, TxtDefaultName)
        agent_description == Get(agent.description, <<>>)
        agent_skills == Get(agent.skills, <<>>)
        lower == Lower(text)
    IN  IF Contains(KwCreate, lower) /\ Contains(KwAgent, lower)
        THEN CatAll(<<TxtIm, agent_name, TxtAgentCreate>>)
        ELSE IF Contains(KwList, lower) /\ Contains(KwAgent, lower)
        THEN CatAll(<<TxtIm, agent_name, TxtAgentList1,
                      Str(Len(list_agents)), TxtAgentList2>>)
        ELSE IF Contains(KwFile, lower) /\ files # <<>>
        THEN CatAll(<<TxtIm, agent_name, TxtAgentFile1, FileNameSuffix(files),
                      TxtAgentFile2, Join(TxtCommaSpace, agent_skills), TxtDot>>)
        ELSE IF Contains(KwData, lower) /\ datas # <<>>
        THEN CatAll(<<TxtIm, agent_name, TxtAgentData,
                      Join(TxtCommaSpace, agent_skills), TxtDot>>)
        ELSE CatAll(<<TxtIm, agent_name, TxtSpecialized,
                      Join(TxtCommaSpace, agent_skills), TxtDotSpace,
                      agent_description, TxtAssist>>)

RECURSIVE AgentLines(_)
\* [f"- {agent['name']}: {agent['description']}" for agent in agents]
AgentLines(agents) ==
    IF agents = <<>> THEN <<>>
    ELSE <<CatAll(<<TxtDashSpace, Head(agents).name[1], TxtColonSpace,
                    Head(agents).description[1]>>)>>
         \o AgentLines(Tail(agents))

(***************************************************************************)
(* A2AServer._generate_agency_response                                     *)
(***************************************************************************)
_generate_agency_response(text, files, datas) ==
    LET lower == Lower(text)
        agents == list_agents
    IN  IF Contains(KwCreate, lower) /\ Contains(KwAgent, lower)
        THEN TxtAgencyCreate
        ELSE IF Contains(KwList, lower) /\ Contains(KwAgent, lower)
        THEN IF agents # <<>>
             THEN CatAll(<<TxtAgencyList1,
                           Join(TxtNewline,
                                AgentLines(SubSeq(agents, 1,
                                    IF Len(agents) < 5 THEN Len(agents) ELSE 5))),
                           TxtAgencyList2, Str(Len(agents)), TxtAgencyList3>>)
             ELSE TxtAgencyNoAgents
        ELSE IF Contains(KwFile, lower) /\ files # <<>>
        THEN CatAll(<<TxtAgencyFile1, FileNameSuffix(files), TxtAgencyFile2>>)
        ELSE IF Contains(KwData, lower) /\ datas # <<>>
        THEN TxtAgencyData
        ELSE TxtAgencyDefault

(***************************************************************************)
(* JSON values of a request.  A scalar is a record of its JSON type t and  *)
(* its text v; a key that is absent has t = "absent".                      *)
(***************************************************************************)
Absent == [t |-> "absent", v |-> ""]

JNull == [t |-> "null", v |-> "null"]

JStr(s) == [t |-> "string", v |-> s]

JNum(s) == [t |-> "number", v |-> s]

JBool(s) == [t |-> "bool", v |-> s]

\* dict.get(key) of a key that is absent or null: None
IsNone(j) == j.t \in {"absent", "null"}

\* Python truth value of a scalar: "not x" is ~Truthy(x)
Truthy(j) ==
    /\ ~IsNone(j)
    /\ ~(j.t = "string" /\ j.v = "")
    /\ ~(j.t = "number" /\ j.v \in {"0", "0.0"})
    /\ ~(j.t = "bool" /\ j.v = "false")

\* what json.dumps writes for a value read with dict.get
Echo(j) == IF IsNone(j) THEN JNull ELSE j

(***************************************************************************)
(* The task map and the tasks in it.                                       *)
(***************************************************************************)
ClientTaskIds == {"t1"}

UuidPool == <<"u1", "u2", "u3">>

MaxUuids == 1        \* task ids the server generates with uuid.uuid4()

MaxCreated == 2      \* tasks created in one run

TaskIds == ClientTaskIds \cup {UuidPool[k] : k \in 1..Len(UuidPool)}

NoTask == [id |-> "", state |-> "", messages |-> <<>>, artifacts |-> <<>>]

States == {"submitted", "working", "completed", "canceled", "failed"}

Terminal == {"completed", "canceled", "failed"}

\* {"role": "agent", "parts": [{"type": "text", "text": text}]}
AgentMessage(text) ==
    [json |-> "object", role |-> "agent",
     parts |-> << [type |-> "text", text |-> text,
                   file |-> [json |-> "object", file_name |-> <<>>], data |-> ""] >>]

API_KEY == "secret"

NoStream ==
    [pc |-> "free", task_id |-> "", attached |-> FALSE, task |-> NoTask,
     request_id |-> JNull, scope |-> "", message |-> <<>>, chunks |-> <<>>,
     i |-> 0, events |-> <<>>, cancelAt |-> -1, calls |-> 0]

NoRequest ==
    [endpoint |-> "none", agent_id |-> "", api_key |-> <<>>,
     body |-> [json |-> "invalid", method |-> Absent, id |-> Absent,
               params |-> [json |-> "absent", task_id |-> Absent,
                           message |-> [json |-> "empty", role |-> "",
                                        parts |-> <<>>]]]]

NoCall == [text |-> <<>>, chunk_size |-> 0, chunks |-> <<>>, done |-> FALSE]

NoResponse ==
    [http |-> 0, kind |-> "none", code |-> 0, id |-> JNull, task |-> NoTask,
     summaries |-> <<>>, stream |-> 0, produced |-> 0]

VARIABLES
    tasks,      \* self.tasks: task id -> task dict (NoTask: the key is absent)
    streams,    \* the stream_response generators, by slot
    uuids,      \* how many task ids uuid.uuid4() has generated
    created,    \* how many tasks tasks/send and tasks/sendSubscribe have created
    last,       \* the request handled last and the response it got
    call        \* a call of _chunk_text on its own: its arguments and result

vars == <<tasks, streams, uuids, created, last, call>>

Slots == 1..MaxStreams

Live(s) == streams[s].pc \in {"start", "generate", "loop"}

\* the task dict the closure variable "task" of generator s refers to
StreamTask(s) ==
    IF streams[s].attached THEN tasks[streams[s].task_id] ELSE streams[s].task

Init ==
    /\ tasks = [id \in TaskIds |-> NoTask]
    /\ streams = [s \in Slots |-> NoStream]
    /\ uuids = 0
    /\ created = 0
    /\ last = [req |-> NoRequest, resp |-> NoResponse]
    /\ call = NoCall

(***************************************************************************)
(* Responses.                                                              *)
(***************************************************************************)
\* JSONResponse({"error": text}, status_code=http): no JSON-RPC envelope
PlainError(http) == [NoResponse EXCEPT !.http = http, !.kind = "plain"]

\* an error envelope sent with the default status
ErrorEnvelopeOk(http, code, request_id) ==
    [NoResponse EXCEPT !.http = 200, !.kind = "error", !.code = code,
                       !.id = Echo(request_id)]

\* JSONResponse({"jsonrpc": "2.0", "error": {"code", "message"}, "id"}, http)
ErrorEnvelope(http, code, request_id) ==
    [NoResponse EXCEPT !.http = http, !.kind = "error", !.code = code,
                       !.id = Echo(request_id)]

\* JSONResponse({"jsonrpc": "2.0", "result": task, "id": request_id})
TaskResult(task, request_id) ==
    [NoResponse EXCEPT !.http = 200, !.kind = "result", !.task = task,
                       !.id = Echo(request_id)]

\* an exception no handler catches: Starlette answers 500 without a body of ours
Uncaught == [NoResponse EXCEPT !.http = 500, !.kind = "exception"]

Reply(req, resp) == last' = [req |-> req, resp |-> resp]

(***************************************************************************)
(* The method handlers.  A handler runs from its call to its return        *)
(* without an await, so it is one step.                                    *)
(***************************************************************************)
\* params.get(...) raises AttributeError unless params is a dict; a request
\* without params gets the default {}
IsDict(params) == params.json \in {"absent", "object"}

\* task_id = params.get("task_id"); if not task_id: task_id = str(uuid.uuid4())
NeedsUuid(params) == ~Truthy(params.task_id)

NewTaskId(params) ==
    IF NeedsUuid(params) THEN UuidPool[uuids + 1] ELSE params.task_id.v

\* self.tasks[task_id] = task rebinds the key: a generator whose closure
\* holds the dict that was stored under task_id keeps that dict to itself
Rebind(task_id) ==
    [s \in Slots |->
        IF streams[s].attached /\ streams[s].task_id = task_id
        THEN [streams[s] EXCEPT !.attached = FALSE, !.task = tasks[task_id]]
        ELSE streams[s]]

\* the lowest slot that holds no running generator
FreeSlot == CHOOSE s \in Slots : ~Live(s) /\ \A q \in 1..(s - 1) : Live(q)

\* a tasks/send that stores its task without completing it
CompletedTaskUnfinished(task_id, message, response_text) ==
    [id |-> task_id,
     state |-> "working",
     messages |-> <<message, AgentMessage(response_text)>>,
     artifacts |-> <<>>]

\* the task dict tasks/send builds
CompletedTask(task_id, message, response_text) ==
    [id |-> task_id,
     state |-> "completed",
     messages |-> <<message, AgentMessage(response_text)>>,
     artifacts |-> <<>>]

\* a stream task that starts without its initiating message
WorkingTaskNoMessage(task_id, message) ==
    [id |-> task_id,
     state |-> "working",
     messages |-> <<>>,
     artifacts |-> <<>>]

\* the task dict tasks/sendSubscribe builds
WorkingTask(task_id, message) ==
    [id |-> task_id,
     state |-> "working",
     messages |-> <<message>>,
     artifacts |-> <<>>]

_handle_tasks_send(req, request_id, params, agent) ==
    IF \/ ~IsDict(params)
       \/ params.message.json = "string"
       \/ ProducerRaises(message_text(params.message.parts),
                         file_parts(params.message.parts))
    THEN /\ Reply(req, Uncaught)
         /\ UNCHANGED <<tasks, streams, uuids, created>>
    ELSE /\ NeedsUuid(params) => uuids < MaxUuids
         /\ created < MaxCreated
         /\ created' = created + 1
         /\ LET task_id == NewTaskId(params)
                message == params.message
                task == CompletedTask(task_id, message,
                            _generate_agent_response(agent,
                                message_text(message.parts),
                                file_parts(message.parts),
                                data_parts(message.parts)))
            IN  /\ tasks' = [tasks EXCEPT ![task_id] = task]
                /\ streams' = Rebind(task_id)
                /\ uuids' = IF NeedsUuid(params) THEN uuids + 1 ELSE uuids
                /\ Reply(req, [TaskResult(task, request_id) EXCEPT !.produced = 1])

_handle_agency_tasks_send(req, request_id, params) ==
    IF \/ ~IsDict(params)
       \/ params.message.json = "string"
       \/ ProducerRaises(message_text(params.message.parts),
                         file_parts(params.message.parts))
    THEN /\ Reply(req, Uncaught)
         /\ UNCHANGED <<tasks, streams, uuids, created>>
    ELSE /\ NeedsUuid(params) => uuids < MaxUuids
         /\ created < MaxCreated
         /\ created' = created + 1
         /\ LET task_id == NewTaskId(params)
                message == params.message
                response_text ==
                    _generate_agency_response(message_text(message.parts),
                        file_parts(message.parts), data_parts(message.parts))
                task == CompletedTask(task_id, message, response_text)
            IN  /\ tasks' = [tasks EXCEPT ![task_id] = task]
                /\ streams' = Rebind(task_id)
                /\ uuids' = IF NeedsUuid(params) THEN uuids + 1 ELSE uuids
                /\ Reply(req, [TaskResult(task, request_id) EXCEPT !.produced = 1])

\* the part of tasks/sendSubscribe that runs in the handler: the task is
\* created and stored, and the generator is handed to the response
Subscribe(req, request_id, params, scope) ==
    IF ~IsDict(params) \/ params.message.json = "string"
    THEN /\ Reply(req, Uncaught)
         /\ UNCHANGED <<tasks, streams, uuids, created>>
    ELSE /\ NeedsUuid(params) => uuids < MaxUuids
         /\ created < MaxCreated
         /\ created' = created + 1
         /\ \E s \in Slots : ~Live(s)
         /\ LET task_id == NewTaskId(params)
                message == params.message
                task == WorkingTask(task_id, message)
                slot == FreeSlot
            IN  /\ tasks' = [tasks EXCEPT ![task_id] = task]
                /\ streams' =
                       [Rebind(task_id) EXCEPT ![slot] =
                           [pc |-> "start", task_id |-> task_id,
                            attached |-> TRUE, task |-> NoTask,
                            request_id |-> request_id, scope |-> scope,
                            message |-> message, chunks |-> <<>>, i |-> 0,
                            events |-> <<>>, cancelAt |-> -1, calls |-> 0]]
                /\ uuids' = IF NeedsUuid(params) THEN uuids + 1 ELSE uuids
                /\ Reply(req, [NoResponse EXCEPT !.http = 200, !.kind = "sse",
                                                 !.id = Echo(request_id),
                                                 !.stream = slot])

_handle_tasks_send_subscribe(req, request_id, params, agent) ==
    Subscribe(req, request_id, params, agent.id)

_handle_agency_tasks_send_subscribe(req, request_id, params) ==
    Subscribe(req, request_id, params, "agency")

\* a lookup that only checks that a task_id was given
NotFoundUnchecked(params) == ~Truthy(params.task_id)

\* if not task_id or task_id not in self.tasks
NotFound(params) ==
    \/ ~Truthy(params.task_id)
    \/ params.task_id.v \notin TaskIds
    \/ tasks[params.task_id.v] = NoTask

\* a get that hands the task out and forgets it
_handle_tasks_getTake(req, request_id, params) ==
    IF ~IsDict(params)
    THEN /\ Reply(req, Uncaught)
         /\ UNCHANGED <<tasks, streams, uuids, created>>
    ELSE IF NotFound(params)
    THEN /\ Reply(req, ErrorEnvelope(404, -32602, request_id))
         /\ UNCHANGED <<tasks, streams, uuids, created>>
    ELSE /\ Reply(req, TaskResult(tasks[params.task_id.v], request_id))
         /\ tasks' = [tasks EXCEPT ![params.task_id.v] = NoTask]
         /\ UNCHANGED <<streams, uuids, created>>

_handle_tasks_get(req, request_id, params) ==
    /\ UNCHANGED <<tasks, streams, uuids, created>>
    /\ IF ~IsDict(params)
       THEN Reply(req, Uncaught)
       ELSE IF NotFound(params)
       THEN Reply(req, ErrorEnvelope(404, -32602, request_id))
       ELSE Reply(req, TaskResult(tasks[params.task_id.v], request_id))

\* a cancel that drops the task from the store
CancelTaskRemove(task) == NoTask

\* self.tasks[task_id]["state"] = "canceled"
CancelTask(task) == [task EXCEPT !.state = "canceled"]

_handle_tasks_cancel(req, request_id, params) ==
    IF ~IsDict(params)
    THEN /\ Reply(req, Uncaught)
         /\ UNCHANGED <<tasks, streams, uuids, created>>
    ELSE IF NotFound(params)
    THEN /\ Reply(req, ErrorEnvelope(404, -32602, request_id))
         /\ UNCHANGED <<tasks, streams, uuids, created>>
    ELSE LET task_id == params.task_id.v
         IN  /\ tasks' = [tasks EXCEPT ![task_id] = CancelTask(@)]
             \* cancelAt remembers how many events the generator that holds
             \* this dict had emitted when the cancel was accepted
             /\ streams' =
                    [s \in Slots |->
                        IF /\ Live(s) /\ streams[s].attached
                           /\ streams[s].task_id = task_id
                           /\ streams[s].cancelAt = -1
                        THEN [streams[s] EXCEPT !.cancelAt = Len(streams[s].events)]
                        ELSE streams[s]]
             /\ UNCHANGED <<uuids, created>>
             /\ Reply(req, TaskResult(tasks'[task_id], request_id))

\* a list that leaves out the tasks that are completed
SummariesOpen ==
    {[id |-> id, state |-> tasks[id].state,
      message_count |-> Len(tasks[id].messages),
      created_at |-> "", updated_at |-> ""] :
        id \in {k \in TaskIds : tasks[k] # NoTask /\ tasks[k].state # "completed"}}

\* one summary per item of self.tasks
Summaries ==
    {[id |-> id, state |-> tasks[id].state,
      message_count |-> Len(tasks[id].messages),
      created_at |-> "", updated_at |-> ""] :
        id \in {k \in TaskIds : tasks[k] # NoTask}}

_handle_tasks_list(req, request_id, params) ==
    /\ UNCHANGED <<tasks, streams, uuids, created>>
    /\ Reply(req, [NoResponse EXCEPT !.http = 200, !.kind = "result",
                                     !.id = Echo(request_id),
                                     !.summaries = Summaries])

_handle_agent_info(req, request_id, agent) ==
    /\ UNCHANGED <<tasks, streams, uuids, created>>
    /\ Reply(req, [NoResponse EXCEPT !.http = 200, !.kind = "result",
                                     !.id = Echo(request_id)])

_handle_agency_info(req, request_id) ==
    /\ UNCHANGED <<tasks, streams, uuids, created>>
    /\ Reply(req, [NoResponse EXCEPT !.http = 200, !.kind = "result",
                                     !.id = Echo(request_id)])

(***************************************************************************)
(* The dispatcher.                                                         *)
(***************************************************************************)
\* utils/security.py verify_api_key
\* a key check without the test for a missing or empty header
verify_api_keyNoEmptyTest(req) ==
    \/ req.api_key = <<>>
    \/ req.api_key[1] = ""
    \/ req.api_key[1] = API_KEY

verify_api_key(req) ==
    /\ req.api_key # <<>>
    /\ req.api_key[1] # ""
    /\ req.api_key[1] = API_KEY

\* a dispatch that has no branch for tasks/list
IsMethodNoList(method, name) ==
    method.t = "string" /\ method.v = name /\ name # "tasks/list"

IsMethod(method, name) == method.t = "string" /\ method.v = name

\* a request answered without a method handler leaves the server as it is
StoreUnchanged == UNCHANGED <<tasks, streams, uuids, created>>

\* an envelope check that forgets the id
EnvelopeInvalidNoId(method, request_id) == ~Truthy(method)

\* if not method or not request_id
EnvelopeInvalid(method, request_id) == ~Truthy(method) \/ ~Truthy(request_id)

handle_agent_request(req) ==
    LET agent == get_agent(req.agent_id)
        json_rpc == req.body
        method == json_rpc.method
        params == json_rpc.params
        request_id == json_rpc.id
    IN  IF ~verify_api_key(req)
        THEN Reply(req, PlainError(401)) /\ StoreUnchanged
        ELSE IF agent = NoAgent
        THEN Reply(req, PlainError(404)) /\ StoreUnchanged
        ELSE IF json_rpc.json = "invalid"
        THEN Reply(req, PlainError(400)) /\ StoreUnchanged
        ELSE IF json_rpc.json # "object"
        THEN Reply(req, Uncaught) /\ StoreUnchanged
        ELSE IF EnvelopeInvalid(method, request_id)
        THEN Reply(req, ErrorEnvelope(400, -32600, request_id)) /\ StoreUnchanged
        ELSE IF IsMethod(method, "tasks/send")
        THEN _handle_tasks_send(req, request_id, params, agent)
        ELSE IF IsMethod(method, "tasks/sendSubscribe")
        THEN _handle_tasks_send_subscribe(req, request_id, params, agent)
        ELSE IF IsMethod(method, "tasks/get")
        THEN _handle_tasks_get(req, request_id, params)
        ELSE IF IsMethod(method, "tasks/cancel")
        THEN _handle_tasks_cancel(req, request_id, params)
        ELSE IF IsMethod(method, "tasks/list")
        THEN _handle_tasks_list(req, request_id, params)
        ELSE IF IsMethod(method, "agent/info")
        THEN _handle_agent_info(req, request_id, agent)
        ELSE Reply(req, ErrorEnvelope(404, -32601, request_id)) /\ StoreUnchanged

\* an agency endpoint that sees no task of the shared store
handle_agency_requestOwn(req) ==
    LET json_rpc == req.body
        method == json_rpc.method
        params == json_rpc.params
        request_id == json_rpc.id
    IN  IF ~verify_api_key(req)
        THEN Reply(req, PlainError(401)) /\ StoreUnchanged
        ELSE IF json_rpc.json = "invalid"
        THEN Reply(req, PlainError(400)) /\ StoreUnchanged
        ELSE IF json_rpc.json # "object"
        THEN Reply(req, Uncaught) /\ StoreUnchanged
        ELSE IF EnvelopeInvalid(method, request_id)
        THEN Reply(req, ErrorEnvelope(400, -32600, request_id)) /\ StoreUnchanged
        ELSE IF IsMethod(method, "tasks/send")
        THEN _handle_agency_tasks_send(req, request_id, params)
        ELSE IF IsMethod(method, "tasks/sendSubscribe")
        THEN _handle_agency_tasks_send_subscribe(req, request_id, params)
        ELSE IF IsMethod(method, "tasks/get")
        THEN Reply(req, ErrorEnvelope(404, -32602, request_id)) /\ StoreUnchanged
        ELSE IF IsMethod(method, "tasks/cancel")
        THEN _handle_tasks_cancel(req, request_id, params)
        ELSE IF IsMethod(method, "tasks/list")
        THEN _handle_tasks_list(req, request_id, params)
        ELSE IF IsMethod(method, "agent/info")
        THEN _handle_agency_info(req, request_id)
        ELSE Reply(req, ErrorEnvelope(404, -32601, request_id)) /\ StoreUnchanged

handle_agency_request(req) ==
    LET json_rpc == req.body
        method == json_rpc.method
        params == json_rpc.params
        request_id == json_rpc.id
    IN  IF ~verify_api_key(req)
        THEN Reply(req, PlainError(401)) /\ StoreUnchanged
        ELSE IF json_rpc.json = "invalid"
        THEN Reply(req, PlainError(400)) /\ StoreUnchanged
        ELSE IF json_rpc.json # "object"
        THEN Reply(req, Uncaught) /\ StoreUnchanged
        ELSE IF EnvelopeInvalid(method, request_id)
        THEN Reply(req, ErrorEnvelope(400, -32600, request_id)) /\ StoreUnchanged
        ELSE IF IsMethod(method, "tasks/send")
        THEN _handle_agency_tasks_send(req, request_id, params)
        ELSE IF IsMethod(method, "tasks/sendSubscribe")
        THEN _handle_agency_tasks_send_subscribe(req, request_id, params)
        ELSE IF IsMethod(method, "tasks/get")
        THEN _handle_tasks_get(req, request_id, params)
        ELSE IF IsMethod(method, "tasks/cancel")
        THEN _handle_tasks_cancel(req, request_id, params)
        ELSE IF IsMethod(method, "tasks/list")
        THEN _handle_tasks_list(req, request_id, params)
        ELSE IF IsMethod(method, "agent/info")
        THEN _handle_agency_info(req, request_id)
        ELSE Reply(req, ErrorEnvelope(404, -32601, request_id)) /\ StoreUnchanged

(***************************************************************************)
(* The generator stream_response of tasks/sendSubscribe.  It runs from one *)
(* yield to the next without an await in between, so each step below is    *)
(* what it does between two awaits: the mutation of the task and the       *)
(* event that json.dumps then takes of it.                                 *)
(***************************************************************************)
StreamChunkSize == 50

\* the producer call of the generator of an agent or of the agency
Produce(scope, message) ==
    IF scope = "agency"
    THEN _generate_agency_response(message_text(message.parts),
             file_parts(message.parts), data_parts(message.parts))
    ELSE _generate_agent_response(get_agent(scope), message_text(message.parts),
             file_parts(message.parts), data_parts(message.parts))

\* an event that carries the id of the request received last
EventLatest(s, task) == [id |-> Echo(last.req.body.id), task |-> task]

\* data: {"jsonrpc": "2.0", "result": task, "id": request_id}
Event(s, task) == [id |-> Echo(streams[s].request_id), task |-> task]

\* the generator is exhausted: its closure, and with it its hold on the
\* task dict, is gone
Finished(st) == [st EXCEPT !.pc = "done", !.attached = FALSE, !.task = NoTask]

\* an exception leaves the generator: it is over without another event, and
\* nothing catches the exception on its way to the transport
Raised(st) == [st EXCEPT !.pc = "raised", !.attached = FALSE, !.task = NoTask]

\* the first yield: the task as it is when the transport first asks
StreamStart(s) ==
    /\ streams[s].pc = "start"
    /\ streams' = [streams EXCEPT ![s].pc = "generate",
                                  ![s].events = Append(@, Event(s, StreamTask(s)))]
    /\ UNCHANGED <<tasks, uuids, created, last, call>>

\* a loop body whose later chunks replace the agent text
IterationReplace(task, i, chunks) ==
    LET n == Len(task.messages)
        updated ==
            IF i = 0
            THEN [task EXCEPT !.messages = Append(@, AgentMessage(chunks[1]))]
            ELSE [task EXCEPT !.messages[n].parts[1].text = chunks[i + 1]]
    IN  IF i = Len(chunks) - 1
        THEN [updated EXCEPT !.state = "completed"]
        ELSE updated

\* a loop body that marks the task completed on every chunk
IterationEager(task, i, chunks) ==
    LET n == Len(task.messages)
        updated ==
            IF i = 0
            THEN [task EXCEPT !.messages = Append(@, AgentMessage(chunks[1]))]
            ELSE [task EXCEPT !.messages[n].parts[1].text = Cat(@, chunks[i + 1])]
    IN  [updated EXCEPT !.state = "completed"]

\* the body of "for i, chunk in enumerate(chunks)" for index i (from 0)
Iteration(task, i, chunks) ==
    LET n == Len(task.messages)
        updated ==
            IF i = 0
            THEN [task EXCEPT !.messages = Append(@, AgentMessage(chunks[1]))]
            ELSE [task EXCEPT !.messages[n].parts[1].text = Cat(@, chunks[i + 1])]
    IN  IF i = Len(chunks) - 1
        THEN [updated EXCEPT !.state = "completed"]
        ELSE updated

\* a generator whose task dict is the one every stored id holds
YieldShared(s, task, pc, i, chunks, calls) ==
    /\ tasks' = IF streams[s].attached
                THEN [id \in TaskIds |-> IF tasks[id] = NoTask THEN NoTask ELSE task]
                ELSE tasks
    /\ streams' = [streams EXCEPT
           ![s] = [@ EXCEPT !.pc = pc, !.i = i, !.chunks = chunks, !.calls = calls,
                            !.task = IF streams[s].attached THEN NoTask ELSE task,
                            !.events = Append(@, Event(s, task))]]

\* the generator s mutates its task dict and yields it
Yield(s, task, pc, i, chunks, calls) ==
    /\ tasks' = IF streams[s].attached
                THEN [tasks EXCEPT ![streams[s].task_id] = task]
                ELSE tasks
    /\ streams' = [streams EXCEPT
           ![s] = [@ EXCEPT !.pc = pc, !.i = i, !.chunks = chunks, !.calls = calls,
                            !.task = IF streams[s].attached THEN NoTask ELSE task,
                            !.events = Append(@, Event(s, task))]]

\* after the settle delay: the producer runs, the text is chunked and the
\* first chunk is appended as the agent message
StreamFirstChunk(s) ==
    /\ streams[s].pc = "generate"
    /\ LET parts == streams[s].message.parts
           response_text == Produce(streams[s].scope, streams[s].message)
           chunks == _chunk_text(response_text, StreamChunkSize)
           calls == streams[s].calls + 1
       IN  IF ProducerRaises(message_text(parts), file_parts(parts))
           THEN /\ streams' = [streams EXCEPT ![s] = [Raised(@) EXCEPT !.calls = calls]]
                /\ UNCHANGED tasks
           ELSE IF chunks = <<>>
           THEN /\ streams' = [streams EXCEPT ![s] = [Finished(@) EXCEPT !.calls = calls]]
                /\ UNCHANGED tasks
           ELSE Yield(s, Iteration(StreamTask(s), 0, chunks), "loop", 1, chunks, calls)
    /\ UNCHANGED <<uuids, created, last, call>>

\* a loop body that asks the producer again for every chunk
StreamNextChunkReproduce(s) ==
    /\ streams[s].pc = "loop"
    /\ streams[s].i < Len(streams[s].chunks)
    /\ Yield(s, Iteration(StreamTask(s), streams[s].i, streams[s].chunks),
             "loop", streams[s].i + 1, streams[s].chunks, streams[s].calls + 1)
    /\ UNCHANGED <<uuids, created, last, call>>

\* after a typing delay: the next chunk extends the agent message
StreamNextChunk(s) ==
    /\ streams[s].pc = "loop"
    /\ streams[s].i < Len(streams[s].chunks)
    /\ Yield(s, Iteration(StreamTask(s), streams[s].i, streams[s].chunks),
             "loop", streams[s].i + 1, streams[s].chunks, streams[s].calls)
    /\ UNCHANGED <<uuids, created, last, call>>

\* after the last typing delay the loop is over and the generator returns
StreamEnd(s) ==
    /\ streams[s].pc = "loop"
    /\ streams[s].i = Len(streams[s].chunks)
    /\ streams' = [streams EXCEPT ![s] = Finished(@)]
    /\ UNCHANGED <<tasks, uuids, created, last, call>>

(***************************************************************************)
(* The requests of the clients.                                            *)
(***************************************************************************)
TextPart(chars) ==
    [type |-> "text", text |-> chars, file |-> [json |-> "object", file_name |-> <<>>], data |-> ""]

FilePart(name) ==
    [type |-> "file", text |-> <<>>, file |-> [json |-> "object", file_name |-> name], data |-> ""]

DataPart ==
    [type |-> "data", text |-> <<>>,
     file |-> [json |-> "object", file_name |-> <<>>], data |-> "{}"]

\* {"type": "file", "file": "a.txt"}: the file of the part is a JSON string
StringFilePart ==
    [type |-> "file", text |-> <<>>,
     file |-> [json |-> "string", file_name |-> <<>>], data |-> ""]

OtherPart(type) ==
    [type |-> type, text |-> <<>>, file |-> [json |-> "object", file_name |-> <<>>], data |-> ""]

UserMessage(parts) == [json |-> "object", role |-> "user", parts |-> parts]

\* the value {} that params.get("message", {}) gives when there is no message
EmptyMessage == [json |-> "empty", role |-> "", parts |-> <<>>]

\* a message that is a JSON string, not an object
StringMessage == [json |-> "string", role |-> "", parts |-> <<>>]

MsgHello == UserMessage(<<TextPart(<<"h", "e", "l", "l", "o">>)>>)

MsgFile ==
    UserMessage(<<TextPart(<<"F", "i", "l", "e">>), FilePart(<<"a.txt">>)>>)

MsgCreate ==
    UserMessage(<<TextPart(<<"C", "r", "e", "a", "t", "e", " ", "a", "n", " ">>),
                  TextPart(<<"A", "g", "e", "n", "t">>)>>)

Params(task_id, message) == [json |-> "object", task_id |-> task_id, message |-> message]

NoParams == [json |-> "absent", task_id |-> Absent, message |-> EmptyMessage]

ArrayParams == [json |-> "array", task_id |-> Absent, message |-> EmptyMessage]

Rpc(method, id, params) ==
    [json |-> "object", method |-> method, id |-> id, params |-> params]

AgentRequest(agent_id, api_key, body) ==
    [endpoint |-> "agent", agent_id |-> agent_id, api_key |-> api_key, body |-> body]

AgencyRequest(api_key, body) ==
    [endpoint |-> "agency", agent_id |-> "", api_key |-> api_key, body |-> body]

\* the task ids a client can name: its own and those the server has issued
KnownIds == ClientTaskIds \cup {UuidPool[k] : k \in 1..uuids}

Nameable(req) ==
    Truthy(req.body.params.task_id) => req.body.params.task_id.v \in KnownIds

\* the bodies that create a task
CreateBodies(msg) ==
    {Rpc(JStr(m), JStr("1"), Params(tid, msg)) :
        m \in {"tasks/send", "tasks/sendSubscribe"},
        tid \in {Absent, JStr("t1")}}

\* the bodies that name a task, or none
TaskBodies(m) ==
    {Rpc(JStr(m), JStr("1"), Params(tid, EmptyMessage)) :
        tid \in {Absent, JStr("t1"), JStr(UuidPool[1])}}

Key == <<API_KEY>>

Requests ==
    {AgentRequest("a1", Key, body) : body \in CreateBodies(MsgFile)}
    \cup {AgencyRequest(Key, body) : body \in CreateBodies(MsgFile)}
    \cup {AgentRequest("a1", Key, body) : body \in TaskBodies("tasks/cancel")}
    \cup {AgencyRequest(Key, body) : body \in TaskBodies("tasks/get")}
    \cup {AgencyRequest(Key, Rpc(JStr("tasks/list"), JStr("1"), NoParams))}

Receive(req) ==
    /\ Nameable(req)
    /\ UNCHANGED call
    /\ IF req.endpoint = "agent"
       THEN handle_agent_request(req)
       ELSE handle_agency_request(req)

Next ==
    \/ \E req \in Requests : Receive(req)
    \/ \E s \in Slots : StreamStart(s)
    \/ \E s \in Slots : StreamFirstChunk(s)
    \/ \E s \in Slots : StreamNextChunk(s)
    \/ \E s \in Slots : StreamEnd(s)

Spec == Init /\ [][Next]_vars

(***************************************************************************)
(* The dispatcher under every shape of request, well-formed or not, and    *)
(* every message; one task is created in a run.                            *)
(***************************************************************************)
MsgData == UserMessage(<<TextPart(<<"d", "a", "t", "a">>), DataPart>>)

MsgList == UserMessage(<<TextPart(<<"L", "i", "s", "t", " ", "a", "g", "e", "n", "t", "s">>)>>)

MsgImage == UserMessage(<<OtherPart("image"), TextPart(<<"h", "i">>)>>)

MsgBadFile == UserMessage(<<TextPart(<<"f", "i", "l", "e">>), StringFilePart>>)

Messages == {MsgHello, MsgCreate, MsgFile, MsgData, MsgList, MsgImage, EmptyMessage}

CancelT1 == Rpc(JStr("tasks/cancel"), JStr("1"), Params(JStr("t1"), EmptyMessage))

InvalidJson == [NoRequest.body EXCEPT !.json = "invalid"]

ArrayBody == [NoRequest.body EXCEPT !.json = "array"]

SendBodies(method, messages) ==
    {Rpc(JStr(method), JStr("1"), Params(JStr("t1"), msg)) : msg \in messages}

ReadBodies ==
    {Rpc(JStr(m), JStr("1"), Params(tid, EmptyMessage)) :
        m \in {"tasks/get", "tasks/cancel"}, tid \in {Absent, JStr("t1")}}
    \cup {Rpc(JStr(m), JStr("1"), NoParams) : m \in {"tasks/list", "agent/info"}}

EnvelopeBodies ==
    {Rpc(m, id, Params(JStr("t1"), EmptyMessage)) :
        m \in {Absent, JStr(""), JStr("foo/bar"), JStr("tasks/cancel")},
        id \in {Absent, JNull, JStr(""), JNum("0"), JBool("false"), JNum("7")}}

ParamsBodies ==
    {Rpc(JStr(m), JStr("1"), ps) :
        m \in {"tasks/send", "tasks/get", "tasks/cancel"},
        ps \in {ArrayParams, NoParams}}
    \cup {Rpc(JStr("tasks/send"), JStr("1"), Params(JStr("t1"), StringMessage))}

MalformedBodies == EnvelopeBodies \cup ParamsBodies \cup {InvalidJson, ArrayBody}

DispatchRequests ==
    {AgentRequest("a1", Key, body) :
        body \in SendBodies("tasks/send", {MsgHello, MsgBadFile})
                 \cup SendBodies("tasks/sendSubscribe", {MsgHello, MsgBadFile})
                 \cup ReadBodies \cup MalformedBodies}
    \cup {AgentRequest("a2", Key, body) : body \in SendBodies("tasks/send", Messages)}
    \cup {AgencyRequest(Key, body) :
            body \in SendBodies("tasks/send", Messages)
                     \cup SendBodies("tasks/sendSubscribe", {MsgFile, MsgImage})
                     \cup ReadBodies \cup MalformedBodies}
    \cup {AgentRequest("zz", Key, body) :
            body \in {CancelT1, InvalidJson, ArrayBody,
                      Rpc(Absent, JStr("1"), NoParams)}}
    \cup {AgentRequest(a, key, body) :
            a \in {"a1", "zz"}, key \in {<<>>, <<"">>, <<"wrong">>},
            body \in {CancelT1, InvalidJson}}
    \cup {AgencyRequest(key, body) :
            key \in {<<>>, <<"">>, <<"wrong">>}, body \in {CancelT1, InvalidJson}}

InitDispatch ==
    /\ tasks = [id \in TaskIds |-> NoTask]
    /\ streams = [s \in Slots |-> NoStream]
    /\ uuids = 0
    /\ created = MaxCreated - 1
    /\ last = [req |-> NoRequest, resp |-> NoResponse]
    /\ call = NoCall

NextDispatch ==
    \/ \E req \in DispatchRequests : Receive(req)
    \/ \E s \in Slots : StreamStart(s)
    \/ \E s \in Slots : StreamFirstChunk(s)
    \/ \E s \in Slots : StreamNextChunk(s)
    \/ \E s \in Slots : StreamEnd(s)

SpecDispatch == InitDispatch /\ [][NextDispatch]_vars

(***************************************************************************)
(* _chunk_text on its own, on every short text and every small chunk_size. *)
(***************************************************************************)
ChunkTokens == {"ab", "c", " ", "\n"}

\* the sequences that represent a text: no two words side by side
IsText(s) == \A k \in 1..(Len(s) - 1) : IsSpace(s[k]) \/ IsSpace(s[k + 1])

ChunkTexts ==
    {s \in UNION {[1..n -> ChunkTokens] : n \in 0..MaxChunkText} : IsText(s)}

InitChunk ==
    /\ tasks = [id \in TaskIds |-> NoTask]
    /\ streams = [s \in Slots |-> NoStream]
    /\ uuids = 0
    /\ created = 0
    /\ last = [req |-> NoRequest, resp |-> NoResponse]
    /\ call \in {[text |-> t, chunk_size |-> k, chunks |-> <<>>, done |-> FALSE] :
                    t \in ChunkTexts, k \in 1..MaxChunkSize}

CallChunkText ==
    /\ ~call.done
    /\ call' = [call EXCEPT !.chunks = _chunk_text(call.text, call.chunk_size),
                            !.done = TRUE]
    /\ UNCHANGED <<tasks, streams, uuids, created, last>>

SpecChunk == InitChunk /\ [][CallChunkText]_vars

(***************************************************************************)
(* The properties.                                                         *)
(***************************************************************************)
IsRpc(req, name) == req.body.json = "object" /\ req.body.method = JStr(name)

\* the request got past the API key check, the agent lookup and the parse
Admitted(req) ==
    /\ req.endpoint \in {"agent", "agency"}
    /\ req.api_key = <<API_KEY>>
    /\ req.endpoint = "agent" => \E k \in 1..Len(Agents) : Agents[k].id = req.agent_id
    /\ req.body.json = "object"

\* the request has the shape of a JSON-RPC request: a method, an id, and
\* params that are an object or left out
Shaped(req) ==
    /\ Admitted(req)
    /\ req.body.method.t = "string" /\ req.body.method.v # ""
    /\ req.body.id.t \in {"string", "number"} /\ req.body.id.v \notin {"", "0"}
    /\ req.body.params.json \in {"absent", "object"}

\* the task a request names is not there: no task_id, or none stored under it
UnknownTask(req) ==
    \/ req.body.params.task_id.t = "absent"
    \/ tasks[req.body.params.task_id.v] = NoTask

\* the text of the agent message of a task, empty while there is none
AgentText(task) ==
    IF Len(task.messages) >= 2 /\ Last(task.messages).role = "agent"
    THEN Last(task.messages).parts[1].text
    ELSE <<>>

\* event k of a stream is a chunk event: it appends or extends agent text
IsChunkEvent(events, k) ==
    k > 1 /\ AgentText(events[k].task) # AgentText(events[k - 1].task)

\* C1: tasks/cancel on a task whose state is terminal is a no-op: the stored
\* state is unchanged and the response returns that state.
C1_CancelTerminalNoOp ==
    [][\A req \in {last'.req} \cap Requests :
        (/\ Shaped(req)
         /\ IsRpc(req, "tasks/cancel")
         /\ ~UnknownTask(req)
         /\ tasks[req.body.params.task_id.v].state \in Terminal
         /\ Receive(req))
        => /\ tasks'[req.body.params.task_id.v].state
                  = tasks[req.body.params.task_id.v].state
           /\ last'.resp.task.state = tasks[req.body.params.task_id.v].state]_vars

\* C2: once a tasks/cancel is accepted while the stream of the task is in
\* progress, the stream emits at most one more chunk event, and it ends with
\* one final snapshot whose state is canceled.
C2_StreamStopsOnCancel ==
    \A s \in Slots :
        streams[s].cancelAt # -1 =>
            LET events == streams[s].events
                after == {k \in (streams[s].cancelAt + 1)..Len(events) :
                             IsChunkEvent(events, k)}
            IN  /\ Cardinality(after) <= 1
                /\ streams[s].pc = "done" =>
                       /\ events # <<>>
                       /\ Last(events).task.state = "canceled"
                       /\ ~IsChunkEvent(events, Len(events))

\* C3: a tasks/cancel accepted during an active stream is not lost: no later
\* step of the stream sets the state of the task back to working or completed.
C3_CancelNotLost ==
    [][\A s \in Slots :
        (/\ Live(s)
         /\ streams[s].attached
         /\ streams[s].cancelAt # -1
         /\ tasks[streams[s].task_id].state = "canceled"
         /\ \/ StreamStart(s)
            \/ StreamFirstChunk(s)
            \/ StreamNextChunk(s)
            \/ StreamEnd(s))
        => tasks'[streams[s].task_id].state = "canceled"]_vars

\* C4: the state of every stored task is one of the five states and is
\* monotonic: a terminal state never changes, and working is only left for a
\* terminal state.
C4_StateMonotonic ==
    [][\A id \in TaskIds :
        /\ tasks'[id] # NoTask => tasks'[id].state \in States
        /\ (tasks[id] # NoTask /\ tasks[id].state \in Terminal)
               => tasks'[id].state = tasks[id].state
        /\ (tasks[id] # NoTask /\ tasks[id].state = "working")
               => tasks'[id].state \in {"working"} \cup Terminal]_vars

\* C5: the agent message text of the last event of a stream that ran to its
\* end is the response text tasks/send returns for the same agent and message.
C5_StreamEqualsSend ==
    \A s \in Slots :
        (streams[s].pc = "done" /\ streams[s].events # <<>>)
            => AgentText(Last(streams[s].events).task)
                   = AgentText(CompletedTask(streams[s].task_id, streams[s].message,
                                   Produce(streams[s].scope, streams[s].message)))

\* C6: joining the chunks of a text with single spaces gives the text back.
C6_JoinReconstructs ==
    call.done => Join(TxtSpace, call.chunks) = call.text

C8_UnknownTaskNotFound ==
    [][\A req \in {last'.req} \cap Requests :
        (/\ Shaped(req)
         /\ IsRpc(req, "tasks/get") \/ IsRpc(req, "tasks/cancel")
         /\ UnknownTask(req)
         /\ Receive(req))
        => /\ tasks' = tasks
           /\ last'.resp.kind = "error"
           /\ last'.resp.code = -32602
           /\ last'.resp.http = 404
           /\ last'.resp.id = req.body.id]_vars

C8_Witness ==
    /\ IsRpc(last.req, "tasks/cancel")
    /\ last.req.body.params.task_id = JStr("t1")
    /\ last.resp.code = -32602
    /\ tasks["t1"] = NoTask
    /\ tasks[UuidPool[1]] # NoTask
    /\ tasks[UuidPool[1]].state = "working"

\* C9: every request whose body is parseable JSON is answered with a JSON-RPC
\* envelope: a result, or an error with a code, with the id of the request.
C9_AlwaysEnvelope ==
    (/\ last.req.endpoint \in {"agent", "agency"}
     /\ last.req.api_key = <<API_KEY>>
     /\ last.req.body.json # "invalid")
    => last.resp.kind \in {"result", "error", "sse"}

\* C10: a request whose body has no method or no id is answered with the
\* error -32600 and HTTP 400 on both endpoints, and no handler runs.
C10_MissingMethodOrId ==
    [][\A req \in {last'.req} \cap DispatchRequests :
        (/\ Admitted(req)
         /\ IsNone(req.body.method) \/ IsNone(req.body.id)
         /\ Receive(req))
        => /\ last'.resp.kind = "error"
           /\ last'.resp.code = -32600
           /\ last'.resp.http = 400
           /\ UNCHANGED <<tasks, streams, uuids, created>>]_vars

C10_Witness ==
    /\ last.req.endpoint = "agent"
    /\ last.req.body.json = "object"
    /\ last.req.body.method = JStr("tasks/cancel")
    /\ last.req.body.id = Absent
    /\ last.resp.code = -32600
    /\ tasks["t1"] # NoTask
    /\ tasks["t1"].state = "working"

\* C11: a request with a method string and an id that is any JSON scalar (a
\* string, a number or a boolean, the empty string, 0 and false included) is
\* not answered with the invalid-request error.
C11_ScalarIdRouted ==
    (/\ Admitted(last.req)
     /\ last.req.body.method.t = "string"
     /\ last.req.body.method.v # ""
     /\ last.req.body.id.t \in {"string", "number", "bool"})
    => last.resp.code # -32600

\* the six methods the dispatcher routes
RecognizedMethods ==
    {"tasks/send", "tasks/sendSubscribe", "tasks/get", "tasks/cancel",
     "tasks/list", "agent/info"}

\* C12: with a valid envelope, a method outside the six recognized ones is
\* answered with the error -32601 and HTTP 404, and each of the six is
\* answered by its own handler, never with -32601.
C12_MethodRouting ==
    Shaped(last.req) =>
        LET method == last.req.body.method.v
            resp == last.resp
        IN  /\ method \notin RecognizedMethods =>
                   resp.kind = "error" /\ resp.code = -32601 /\ resp.http = 404
            /\ method \in RecognizedMethods => resp.code # -32601
            /\ method = "tasks/send" =>
                   resp.kind = "exception" \/ resp.task.state = "completed"
            /\ method = "tasks/sendSubscribe" => resp.kind \in {"sse", "exception"}
            /\ method \in {"tasks/get", "tasks/cancel"} =>
                   \/ resp.kind = "error" /\ resp.code = -32602
                   \/ resp.kind = "result" /\ resp.task # NoTask
            /\ method \in {"tasks/list", "agent/info"} =>
                   resp.kind = "result" /\ resp.task = NoTask

C12_Witness ==
    /\ Shaped(last.req)
    /\ last.req.endpoint = "agency"
    /\ last.req.body.method = JStr("foo/bar")
    /\ last.resp.code = -32601
    /\ tasks["t1"] # NoTask

\* the agent id of an agent-scoped request is not registered
UnresolvedAgent(req) ==
    /\ req.endpoint = "agent"
    /\ \A k \in 1..Len(Agents) : Agents[k].id # req.agent_id

\* C13: an authorized agent-scoped request whose agent id the registry does
\* not resolve is answered with HTTP 404 and a JSON-RPC error whose code is a
\* not-found code, distinct from -32600 and -32601.
C13_UnknownAgentError ==
    (/\ last.req.api_key = <<API_KEY>>
     /\ UnresolvedAgent(last.req))
    => /\ last.resp.http = 404
       /\ last.resp.kind = "error"
       /\ last.resp.code \notin {0, -32600, -32601}

\* the request is one the dispatcher rejects while parsing or routing:
\* unparseable JSON, no method or no id, a method it does not recognize, or
\* an agent it does not resolve
RoutingReject(req) ==
    \/ req.body.json = "invalid"
    \/ req.body.json = "object" /\ (IsNone(req.body.method) \/ IsNone(req.body.id))
    \/ req.body.json = "object" /\ req.body.method.v \notin RecognizedMethods
    \/ UnresolvedAgent(req)

\* C14: parsing and routing errors never reach the task store: a request
\* rejected for unparseable JSON, a missing method or id, an unrecognized
\* method or an unresolved agent leaves the stored tasks as they were.
C14_RoutingErrorsFrame ==
    [][\A req \in {last'.req} \cap DispatchRequests :
        (RoutingReject(req) /\ Receive(req))
        => /\ tasks' = tasks
           /\ last'.resp.kind \notin {"result", "sse"}]_vars

C14_Witness ==
    /\ UnresolvedAgent(last.req)
    /\ last.req.api_key = <<API_KEY>>
    /\ IsRpc(last.req, "tasks/cancel")
    /\ last.req.body.params.task_id = JStr("t1")
    /\ last.resp.http = 404
    /\ tasks["t1"] # NoTask
    /\ tasks["t1"].state = "working"

\* the x-api-key header is absent, empty or not the configured key
BadKey(req) == req.api_key = <<>> \/ req.api_key[1] = "" \/ req.api_key[1] # API_KEY

\* C15: a POST that fails the API-key check is answered with HTTP 401 before
\* agent resolution, parsing and dispatch, whatever its agent id, body or
\* method, and leaves the task store unchanged.
C15_AuthFirst ==
    [][\A req \in {last'.req} \cap DispatchRequests :
        (BadKey(req) /\ Receive(req))
        => /\ last'.resp.http = 401
           /\ last'.resp.kind = "plain"
           /\ UNCHANGED <<tasks, streams, uuids, created>>]_vars

C15_Witness ==
    /\ last.req.api_key = <<"">>
    /\ UnresolvedAgent(last.req)
    /\ last.req.body.json = "invalid"
    /\ last.resp.http = 401
    /\ tasks["t1"] # NoTask

\* C16: every stored task has at least one message, and every stored task
\* whose state is completed has a last message with role agent.
C16_MessagesInvariant ==
    \A id \in TaskIds :
        tasks[id] # NoTask =>
            /\ Len(tasks[id].messages) >= 1
            /\ tasks[id].state = "completed" =>
                   Last(tasks[id].messages).role = "agent"

C16_Witness ==
    \E s \in Slots :
        /\ streams[s].pc = "done"
        /\ streams[s].cancelAt = -1
        /\ tasks[streams[s].task_id].state = "completed"
        /\ Len(tasks[streams[s].task_id].messages) = 2
        /\ tasks[streams[s].task_id] = Last(streams[s].events).task

\* C17: the messages stored under a task id are append-only: their number
\* never decreases and no message before the last one is removed or
\* replaced, also when a send names a task id that is already stored.
C17_MessagesAppendOnly ==
    [][\A id \in TaskIds :
        tasks[id] # NoTask =>
            /\ tasks'[id] # NoTask
            /\ Len(tasks'[id].messages) >= Len(tasks[id].messages)
            /\ \A k \in 1..(Len(tasks[id].messages) - 1) :
                   tasks'[id].messages[k] = tasks[id].messages[k]]_vars

\* C18: the first event of every tasks/sendSubscribe stream is a snapshot
\* with state working and exactly one message, the initiating message,
\* whatever requests run between the creation of the task and that event.
C18_FirstEventSnapshot ==
    \A s \in Slots :
        streams[s].events # <<>> =>
            LET first == streams[s].events[1].task
            IN  /\ first.state = "working"
                /\ first.messages = <<streams[s].message>>

\* C19: in a stream that is not canceled, the event that carries the final
\* chunk has state completed, the stored state is completed when that event
\* is out, and every earlier event has state working.
C19_FinalChunkCompletes ==
    \A s \in Slots :
        streams[s].cancelAt = -1 =>
            LET events == streams[s].events
                final == Len(streams[s].chunks) + 1
            IN  /\ \A k \in 1..Len(events) :
                       events[k].task.state =
                           IF k >= 2 /\ k = final THEN "completed" ELSE "working"
                /\ (streams[s].attached /\ Len(events) >= 2 /\ Len(events) = final)
                       => tasks[streams[s].task_id].state = "completed"

C19_Witness ==
    \E s \in Slots :
        /\ streams[s].cancelAt = -1
        /\ streams[s].attached
        /\ Len(streams[s].chunks) = 2
        /\ Len(streams[s].events) = 3
        /\ streams[s].events[2].task.state = "working"
        /\ streams[s].events[3].task.state = "completed"

\* C20: every event a stream emits wraps the current task: when the event
\* is emitted its task equals the task stored under that id, also after
\* another send with the same task id has run while the stream is open.
C20_EventIsStoredTask ==
    [][\A s \in Slots :
        Len(streams'[s].events) > Len(streams[s].events) =>
            Last(streams'[s].events).task = tasks'[streams'[s].task_id]]_vars

\* the ids under which a task is stored
StoredIds == {id \in TaskIds : tasks[id] # NoTask}

\* C21: tasks/list returns exactly one summary per stored task, each with
\* the state of that task and the number of its messages, and no summary
\* carries the messages themselves.
C21_ListSummaries ==
    [][\A req \in {last'.req} \cap Requests :
        (Shaped(req) /\ IsRpc(req, "tasks/list") /\ Receive(req))
        => LET summaries == last'.resp.summaries
           IN  /\ last'.resp.kind = "result"
               /\ {sm.id : sm \in summaries} = StoredIds
               /\ Cardinality(summaries) = Cardinality(StoredIds)
               /\ \A sm \in summaries :
                      /\ sm.state = tasks[sm.id].state
                      /\ sm.message_count = Len(tasks[sm.id].messages)
                      /\ "messages" \notin DOMAIN sm]_vars

C21_Witness ==
    /\ IsRpc(last.req, "tasks/list")
    /\ Cardinality(last.resp.summaries) = 2
    /\ \E a, b \in last.resp.summaries :
           /\ a.state = "canceled" /\ a.message_count = 1
           /\ b.state = "completed" /\ b.message_count = 2

\* the response producer raises for the message of the request
FailingSend(req) ==
    /\ Shaped(req)
    /\ req.body.params.message.json = "object"
    /\ ProducerRaises(message_text(req.body.params.message.parts),
                      file_parts(req.body.params.message.parts))

\* C22: when the response producer fails, in tasks/send or in a stream, the
\* client gets a JSON-RPC error and never a bare HTTP 500, and the task is
\* stored with state failed, not left in state working.
C22_ProducerFailureHandled ==
    /\ (IsRpc(last.req, "tasks/send") /\ FailingSend(last.req))
           => /\ last.resp.kind = "error"
              /\ last.resp.http # 500
    /\ \A s \in Slots :
           streams[s].pc = "raised" =>
               tasks[streams[s].task_id].state = "failed"

\* event e of a stream is an error-shaped JSON-RPC envelope
IsErrorEvent(e) == "error" \in DOMAIN e

\* C23: when a stream fails after its first event, its last event is an
\* error-shaped JSON-RPC envelope, and the stream closes only after it.
C23_StreamErrorEvent ==
    \A s \in Slots :
        (streams[s].pc = "raised" /\ streams[s].events # <<>>)
            => IsErrorEvent(Last(streams[s].events))

PartTypes == {"text", "file", "data"}

\* the message of request req has a part whose type tag is unknown
UnknownPart(req) ==
    /\ Shaped(req)
    /\ req.body.method.v \in {"tasks/send", "tasks/sendSubscribe"}
    /\ req.body.params.json = "object"
    /\ req.body.params.message.json = "object"
    /\ \E k \in 1..Len(req.body.params.message.parts) :
           req.body.params.message.parts[k].type \notin PartTypes

\* C25: a tasks/send or tasks/sendSubscribe whose message has a part of a
\* type other than text, file and data is answered with an error, and no
\* stored task holds a message with such a part.
C25_UnknownPartRejected ==
    /\ UnknownPart(last.req) => last.resp.kind = "error"
    /\ \A id \in TaskIds :
           tasks[id] # NoTask =>
               \A m \in 1..Len(tasks[id].messages) :
                   \A k \in 1..Len(tasks[id].messages[m].parts) :
                       tasks[id].messages[m].parts[k].type \in PartTypes

\* C26: no step removes a task: an id that is in the store before a request
\* or a stream step is in the store after it.
C26_StoreNeverShrinks ==
    [][\A id \in TaskIds : tasks[id] # NoTask => tasks'[id] # NoTask]_vars

\* C26 witness: after a cancel, a second send to the same id and the end of
\* a stream, both tasks are still stored
C26_Witness ==
    /\ Cardinality(StoredIds) = 2
    /\ \E id \in StoredIds : tasks[id].state = "canceled"
    /\ \E s \in Slots : streams[s].pc = "done"

(***************************************************************************)
(* The discovery card of one agent: AgentFactory writes the card file,     *)
(* get_agent_card serves the file or generates a card from the registry.   *)
(* In this specification the variable call holds the registry entry of the *)
(* agent, its card file and the card served last.                          *)
(***************************************************************************)
SkillLists == UNION {[1..n -> {"x", "y"}] : n \in 0..MaxSkills}

\* the value under "examples": the key is absent, null, or a list of lists
ExamplesValues ==
    {[json |-> j, lists |-> <<>>] : j \in {"absent", "null"}}
        \cup {[json |-> "array", lists |-> l] :
                 l \in UNION {[1..n -> {<<"e1">>, <<"e2">>}] : n \in 0..MaxSkills}}

Unregistered ==
    [skills |-> <<>>, examples |-> [json |-> "absent", lists |-> <<>>],
     a2a_card_path |-> FALSE]

NoCard == [status |-> 0, skills |-> <<>>]

\* the comprehension {"name": skill, "description": f"Skill in {skill}"}
SkillEntries(skills) ==
    [i \in 1..Len(skills) |->
        [name |-> skills[i], description |-> <<"Skill in ", skills[i]>>]]

\* len(agent_info["examples"]) raises TypeError for null, inside the loop
ExamplesRaise(agent_info) ==
    /\ agent_info.examples.json = "null"
    /\ agent_info.skills # <<>>

\* "if 'examples' in agent_info": skill[skill_idx] gets examples[skill_idx]
\* while skill_idx < len(examples)
WithExamples(agent_info) ==
    LET entries == SkillEntries(agent_info.skills)
    IN  IF agent_info.examples.json = "absent"
        THEN entries
        ELSE [i \in 1..Len(entries) |->
                 IF i <= Len(agent_info.examples.lists)
                 THEN [name |-> entries[i].name,
                       description |-> entries[i].description,
                       examples |-> agent_info.examples.lists[i]]
                 ELSE entries[i]]

\* AgentFactory.create_agent: the card file is written unless the card
\* cannot be built or written (ok), and only then is the path recorded
create_agent(skills, examples, ok) ==
    /\ call.agent = Unregistered
    /\ ~call.registered
    /\ LET agent_info == [skills |-> skills, examples |-> examples,
                          a2a_card_path |-> FALSE]
           written == ok /\ ~ExamplesRaise(agent_info)
       IN  call' = [call EXCEPT
               !.registered = TRUE,
               !.agent = [agent_info EXCEPT !.a2a_card_path = written],
               !.file = IF written THEN WithExamples(agent_info) ELSE @,
               !.served = NoCard]
    /\ UNCHANGED <<tasks, streams, uuids, created, last>>

\* AgentFactory.update_agent: the updates are applied, and the card file is
\* rewritten if the agent has one and nothing fails on the way
update_agent(updates, ok) ==
    /\ call.registered
    /\ LET agent == [call.agent EXCEPT
                        !.skills = IF updates.skills.set
                                   THEN updates.skills.v ELSE @,
                        !.examples = IF updates.examples.json # "absent"
                                     THEN updates.examples ELSE @]
           written == agent.a2a_card_path /\ ok /\ ~ExamplesRaise(agent)
       IN  call' = [call EXCEPT
               !.agent = agent,
               !.file = IF written THEN WithExamples(agent) ELSE @,
               !.served = NoCard]
    /\ UNCHANGED <<tasks, streams, uuids, created, last>>

\* A2AServer.get_agent_card: 404 for no agent, the card file if the agent
\* has a path (500 if it cannot be read), else a card from the registry
get_agent_card(ok) ==
    /\ call' = [call EXCEPT !.served =
           IF ~call.registered
           THEN [status |-> 404, skills |-> <<>>]
           ELSE IF call.agent.a2a_card_path
           THEN IF ok
                THEN [status |-> 200, skills |-> call.file]
                ELSE [status |-> 500, skills |-> <<>>]
           ELSE [status |-> 200, skills |-> SkillEntries(call.agent.skills)]]
    /\ UNCHANGED <<tasks, streams, uuids, created, last>>

InitCard ==
    /\ tasks = [id \in TaskIds |-> NoTask]
    /\ streams = [s \in Slots |-> NoStream]
    /\ uuids = 0
    /\ created = 0
    /\ last = [req |-> NoRequest, resp |-> NoResponse]
    /\ call = [registered |-> FALSE, agent |-> Unregistered, file |-> <<>>,
               served |-> NoCard]

NextCard ==
    \/ \E skills \in SkillLists, examples \in ExamplesValues, ok \in BOOLEAN :
           create_agent(skills, examples, ok)
    \/ \E b \in BOOLEAN, s \in SkillLists, e \in ExamplesValues, ok \in BOOLEAN :
           update_agent([skills |-> [set |-> b, v |-> IF b THEN s ELSE <<>>],
                         examples |-> e], ok)
    \/ \E ok \in BOOLEAN : get_agent_card(ok)

SpecCard == InitCard /\ [][NextCard]_vars

\* C27: a card served with status 200 has one skill entry per skill name of
\* the agent, in the same order, and the entry at index i has the agent's
\* i-th example list when there is one, and no examples key otherwise.
C27_CardSkillsByIndex ==
    call.served.status = 200 =>
        /\ Len(call.served.skills) = Len(call.agent.skills)
        /\ \A i \in 1..Len(call.served.skills) :
               LET entry == call.served.skills[i]
                   examples == call.agent.examples
               IN  /\ entry.name = call.agent.skills[i]
                   /\ IF examples.json = "array" /\ i <= Len(examples.lists)
                      THEN /\ "examples" \in DOMAIN entry
                           /\ entry.examples = examples.lists[i]
                      ELSE "examples" \notin DOMAIN entry

\* C28: the HTTP status mirrors the outcome: a response with an error member
\* has status 401 for a failed key check, 404 for an unresolved agent, an
\* unknown method (-32601) or an unknown task (-32602), 400 for an invalid
\* request (-32600) or body, and never a 2xx status; a response with a result
\* member, sent whole or as a stream, has status 200.
C28_StatusMirrorsOutcome ==
    /\ last.resp.kind \in {"error", "plain"} =>
           /\ last.resp.http \in {400, 401, 404}
           /\ last.resp.http = 401 <=> BadKey(last.req)
           /\ (~BadKey(last.req) /\ UnresolvedAgent(last.req)) => last.resp.http = 404
           /\ last.resp.kind = "error" =>
                  /\ last.resp.code = -32600 => last.resp.http = 400
                  /\ last.resp.code \in {-32601, -32602} => last.resp.http = 404
    /\ last.resp.kind \in {"result", "sse"} => last.resp.http = 200

\* C28 witness: a cancel for a task that is not stored, while another task
\* is, is answered with error -32602 and status 404
C28_Witness ==
    /\ last.resp.kind = "error"
    /\ last.resp.code = -32602
    /\ last.resp.http = 404
    /\ StoredIds # {}

\* C29: every stored task has created_at and updated_at, and tasks/list
\* reports a value for both in every summary.
C29_TimestampsSet ==
    /\ \A id \in StoredIds :
           {"created_at", "updated_at"} \subseteq DOMAIN tasks[id]
    /\ (IsRpc(last.req, "tasks/list") /\ last.resp.kind = "result") =>
           \A sm \in last.resp.summaries :
               sm.created_at # "" /\ sm.updated_at # ""

\* C30: the chunker packs greedily: every chunk is non-empty, every chunk but
\* the last is at least chunk_size long, a chunk that long falls below
\* chunk_size when its last word is removed, and the chunks together hold
\* exactly the words of the text in order, the last one whatever its size.
C30_GreedyPacking ==
    call.done =>
        LET chunks == call.chunks
            n == Len(chunks)
        IN  /\ \A k \in 1..n : TextLen(chunks[k]) > 0
            /\ \A k \in 1..(n - 1) : TextLen(chunks[k]) >= call.chunk_size
            /\ \A k \in 1..n :
                   TextLen(chunks[k]) >= call.chunk_size =>
                       TextLen(JoinWords(Front(Split(chunks[k])))) < call.chunk_size
            /\ \A k \in 1..n : chunks[k] = JoinWords(Split(chunks[k]))
            /\ Split(Join(<<" ">>, chunks)) = Split(call.text)

\* C30 witness: a chunk of two words closed at the minimum is followed by a
\* last chunk that is shorter than chunk_size
C30_Witness ==
    /\ call.done
    /\ Len(call.chunks) = 2
    /\ Len(Split(call.chunks[1])) = 2
    /\ TextLen(call.chunks[2]) < call.chunk_size

RECURSIVE ChunkWords(_)
\* the words of the chunks, read in chunk order
ChunkWords(chunks) ==
    IF chunks = <<>> THEN <<>>
    ELSE Split(Head(chunks)) \o ChunkWords(Tail(chunks))

\* C31: the words of the chunks, in chunk order, are exactly the words of
\* the text in order: none is split, dropped, duplicated or reordered, and a
\* text without words (empty, or whitespace only) gives no chunk.
C31_WordsPreserved ==
    call.done =>
        /\ ChunkWords(call.chunks) = Split(call.text)
        /\ \A k \in 1..Len(call.chunks) :
               \A j \in 1..Len(call.chunks[k]) :
                   IsSpace(call.chunks[k][j]) => call.chunks[k][j] = " "
        /\ Split(call.text) = <<>> => call.chunks = <<>>

\* C31 witness: a text of three words, one of them after a newline, has been
\* chunked into a chunk of two words and a leftover chunk
C31_Witness ==
    /\ call.done
    /\ Len(call.chunks) = 2
    /\ Len(Split(call.text)) = 3
    /\ \E j \in 1..Len(call.text) : call.text[j] = "\n"
    /\ Len(Split(call.chunks[1])) = 2

\* C32: the k-th chunk event of a stream carries a task with exactly two
\* messages, the second of role agent with a single text part whose text is
\* the first k chunks one after the other: the first chunk event appends the
\* agent message and the later ones extend its text.
C32_ChunkEventText ==
    \A s \in Slots :
        \A k \in 1..(Len(streams[s].events) - 1) :
            LET messages == streams[s].events[k + 1].task.messages
            IN  /\ k <= Len(streams[s].chunks)
                /\ Len(messages) = 2
                /\ messages[1] = streams[s].message
                /\ messages[2].role = "agent"
                /\ Len(messages[2].parts) = 1
                /\ messages[2].parts[1].type = "text"
                /\ messages[2].parts[1].text
                       = CatAll(SubSeq(streams[s].chunks, 1, k))

\* C32 witness: a stream of two chunks has emitted both chunk events while
\* another send replaced the task under its id
C32_Witness ==
    \E s \in Slots :
        /\ Len(streams[s].chunks) = 2
        /\ Len(streams[s].events) = 3
        /\ ~streams[s].attached
        /\ streams[s].pc = "loop"
        /\ streams[s].events[3].task.messages[2].parts[1].text
               # streams[s].chunks[2]

\* streams of one and of several chunks under two request ids, a stream
\* whose producer raises, a cancel and an unknown method, with both
\* generators stepping
NextLive ==
    \/ \E req \in {AgentRequest("a1", Key, body) :
                      body \in SendBodies("tasks/sendSubscribe", {MsgHello, MsgBadFile})
                               \cup {CancelT1,
                                     Rpc(JStr("tasks/sendSubscribe"), JNum("7"),
                                         Params(Absent, MsgHello)),
                                     Rpc(JStr("foo/bar"), JNum("9"), NoParams)}}
                 \cup {AgencyRequest(Key, body) :
                          body \in SendBodies("tasks/sendSubscribe", {MsgFile})} :
           Receive(req)
    \/ \E s \in Slots : StreamStart(s)
    \/ \E s \in Slots : StreamFirstChunk(s)
    \/ \E s \in Slots : StreamNextChunk(s)
    \/ \E s \in Slots : StreamEnd(s)

\* the consumer of every stream keeps reading and every asyncio.sleep
\* returns: a generator that can take its next step eventually takes it.
\* StreamFirstChunk(s) is enabled exactly when the generator is at
\* "generate" and always leaves that position, so its weak fairness is
\* stated as: the generator is not at "generate" forever.
FairStreams ==
    /\ Init
    /\ [][NextLive]_vars
    /\ \A s \in Slots :
           /\ WF_vars(StreamStart(s))
           /\ []<>(streams[s].pc # "generate")
           /\ WF_vars(StreamNextChunk(s))
           /\ WF_vars(StreamEnd(s))

\* C33: every stream that no cancel reaches, and whose consumer keeps
\* reading, comes to its end, and its last event carries the task in state
\* completed: the task does not stay in state working forever.
C33_StreamCompletes ==
    \A s \in Slots :
        (streams[s].pc = "start")
            ~> \/ streams[s].cancelAt # -1
               \/ /\ streams[s].pc = "done"
                  /\ Last(streams[s].events).task.state = "completed"

\* C34: tasks with different ids do not interfere: a step of a stream (an
\* event, its completion, its end) and a tasks/cancel leave every task that
\* is stored under another id as it was.
C34_OtherIdsUntouched ==
    [][/\ \A s \in Slots :
              (/\ Live(s)
               /\ \/ streams'[s].events # streams[s].events
                  \/ streams'[s].pc # streams[s].pc)
              => \A id \in TaskIds \ {streams[s].task_id} : tasks'[id] = tasks[id]
       /\ \A req \in {last'.req} \cap Requests :
              (/\ IsRpc(req, "tasks/cancel")
               /\ tasks' # tasks
               /\ Receive(req))
              => \A id \in TaskIds \ {req.body.params.task_id.v} :
                     tasks'[id] = tasks[id]]_vars

\* C34 witness: two streams on different task ids have both emitted chunk
\* events, and the task of one of them has been canceled meanwhile
C34_Witness ==
    \E s \in Slots, r \in Slots :
        /\ streams[s].task_id # streams[r].task_id
        /\ streams[s].attached /\ streams[r].attached
        /\ Len(streams[s].events) >= 2
        /\ Len(streams[r].events) >= 2
        /\ streams[s].cancelAt >= 0
        /\ tasks[streams[r].task_id].state = "working"

\* C35: tasks/get, tasks/list and agent/info are read-only: after any of
\* them every id is stored or not as before, with the same task, and no
\* stream and no counter of the server has changed.
C35_ReadsChangeNothing ==
    [][\A req \in {last'.req} \cap DispatchRequests :
        (/\ req.body.json = "object"
         /\ req.body.method.v \in {"tasks/get", "tasks/list", "agent/info"}
         /\ Receive(req))
        => /\ tasks' = tasks
           /\ streams' = streams
           /\ uuids' = uuids]_vars

\* C35 witness: a tasks/get has returned a task that is stored in state
\* working while its stream is still open
C35_Witness ==
    /\ IsRpc(last.req, "tasks/get")
    /\ last.resp.kind = "result"
    /\ last.resp.task.state = "working"
    /\ tasks[last.resp.task.id] = last.resp.task
    /\ \E s \in Slots : Live(s) /\ streams[s].task_id = last.resp.task.id

\* the request req as every resolvable agent's endpoint and the agency
\* endpoint would receive it
Endpoints(req) ==
    {AgencyRequest(req.api_key, req.body)}
        \cup {AgentRequest(Agents[k].id, req.api_key, req.body) : k \in 1..Len(Agents)}

\* the store is still as the last response showed it
StillCurrent ==
    /\ (last.resp.kind = "result" /\ ~IsRpc(last.req, "tasks/list"))
           => tasks[last.resp.task.id] = last.resp.task
    /\ (last.resp.kind = "result" /\ IsRpc(last.req, "tasks/list"))
           => last.resp.summaries = Summaries
    /\ last.resp.kind = "error" => UnknownTask(last.req)

\* C36: the task store is one map for all endpoints: in the store state a
\* tasks/get, tasks/cancel or tasks/list was answered in, the same request
\* gets the same response, and leaves the same store, at the agency endpoint
\* and at every resolvable agent's endpoint.
C36_SharedStore ==
    (/\ Shaped(last.req)
     /\ last.req.body.method.v \in {"tasks/get", "tasks/cancel", "tasks/list"}
     /\ StillCurrent)
    => \A alt \in Endpoints(last.req) :
           ENABLED (/\ Receive(alt)
                    /\ last'.resp = last.resp
                    /\ tasks' = tasks)

\* C36 witness: a task created through the endpoint of agent a1 has been
\* canceled through the agency endpoint, and its stream is still open
C36_Witness ==
    /\ last.req.endpoint = "agency"
    /\ IsRpc(last.req, "tasks/cancel")
    /\ last.resp.kind = "result"
    /\ StillCurrent
    /\ \E s \in Slots :
           /\ streams[s].scope = "a1"
           /\ streams[s].attached
           /\ streams[s].task_id = last.resp.task.id

\* C37: every JSON-RPC response envelope carries the id of its request, and
\* every event of a stream carries the id of the tasks/sendSubscribe that
\* opened the stream, also while other requests and streams are in flight.
C37_IdEchoed ==
    /\ last.resp.kind \in {"result", "error", "sse"}
           => last.resp.id = Echo(last.req.body.id)
    /\ last.resp.kind = "sse"
           => streams[last.resp.stream].request_id = last.req.body.id
    /\ \A s \in Slots :
           \A k \in 1..Len(streams[s].events) :
               streams[s].events[k].id = Echo(streams[s].request_id)

\* C37 witness: two streams opened by requests with different ids have both
\* emitted chunk events, and a request with a third id was answered last
C37_Witness ==
    \E s \in Slots, r \in Slots :
        /\ streams[s].request_id = JStr("1")
        /\ streams[r].request_id = JNum("7")
        /\ Len(streams[s].events) >= 2
        /\ Len(streams[r].events) >= 2
        /\ streams[r].events[2].id = JNum("7")
        /\ last.resp.kind = "error"
        /\ last.resp.id = JNum("9")

====
